---- MODULE Spec2Model ----
(***************************************************************************)
(* FlappyMax (src/FlappyMax.py): the bird, the obstacles and the main      *)
(* loop, as a state machine.                                               *)
(*                                                                         *)
(* Numbers.  pygame.Rect holds integers: an assignment of a float to       *)
(* rect.y keeps the integer part (truncation toward zero).  Bird.velocity  *)
(* is a float that only ever takes the values -5 + 0.2*k and, after floor  *)
(* bounces, 3/4-multiples of those; it is kept here as an exact rational,  *)
(* an integer count of 1/Scale, Scale = 5 * 4^MaxBounce.  The rounding     *)
(* error of the double additions (below 2^-48) is not represented.         *)
(***************************************************************************)
EXTENDS Integers, Sequences, FiniteSets

\* ---------------------------------------------------------------- settings
screen_width == 1000
screen_height == screen_width
hspeed == 3
obstacle_interval == 1800
gap_size == 400

bird_size == 100
impulse == -5
gravity_den == 5
bounce_num == 3
bounce_den == 4
height_min == 100
height_max == 500
obstacle_width == 100
game_over_wait == 2000
fps == 60

\* ------------------------------------------------------------------ bounds
\* Floor bounces followed since the last impulse: each one needs two more
\* binary digits of velocity.
MaxBounce == 3
\* A free flight is followed for this many updates after its impulse.
MaxFlight == 60

\* The player's input in the main loop: a falling bird is tapped when its
\* speed reaches TapSpeed gravity increments; on the tick after a tap the
\* player may start to climb, and then taps on every tick.
TapSpeed == 28
\* Obstacles draw their top height from HeightSteps + 1 evenly spaced values of
\* the height range, its two ends included.
HeightSteps == 2
\* Ticks of the main loop that are followed.
MaxTicks == 520

Scale == gravity_den * (bounce_den ^ MaxBounce)
gravity == Scale \div gravity_den

\* Clock.tick(fps) holds every iteration of the loop to at least this many ms;
\* an iteration takes that long unless it shows the game-over screen.
TickMs == 1000 \div fps

HeightChoices ==
    {height_min + (i * (height_max - height_min)) \div HeightSteps : i \in 0..HeightSteps}

VARIABLES
    bird,           \* main's bird: rect.y, velocity (in 1/Scale), bounces since the impulse
    obstacles,      \* the sprite group, in insertion order
    score,
    collision,      \* main's local flag
    running,
    pc,             \* where main's loop stands: events, obstacles, gameover, reset, render, exit
    timer_left,     \* ms until obstacle_timer posts its next event
    pending,        \* obstacle_timer events posted and not yet polled
    frame_elapsed,  \* ms spent in this iteration since clock.tick returned
    ticks,          \* iterations of the loop since the bird was created
    called,         \* the Bird method the last step ran, or "none"
    flight          \* history: the free flight since the last impulse

vars == <<bird, obstacles, score, collision, running, pc, timer_left, pending,
          frame_elapsed, ticks, called, flight>>

game_vars == <<obstacles, score, collision, running, pc, timer_left, pending,
               frame_elapsed, ticks>>

\* ------------------------------------------------------------------- Bird
\* int(x) of a rational n/d: the integer part, toward zero.
Trunc(n, d) == IF n >= 0 THEN n \div d ELSE -((-n) \div d)

BirdInit == [y |-> screen_height \div 2 - bird_size \div 2,
             velocity |-> impulse * Scale,
             bounces |-> 0]

bird_left == screen_width \div 2 - bird_size \div 2
bird_right == bird_left + bird_size

move_upwards(b) == [b EXCEPT !.velocity = impulse * Scale, !.bounces = 0]

\* Mutant: rect.y rounded to the nearest integer instead of truncated.
MovedY_rounded(b, v) ==
    LET n == 2 * (b.y * Scale + v) + Scale
    IN  IF n >= 0 THEN n \div (2 * Scale) ELSE -((-n + 2 * Scale - 1) \div (2 * Scale))

\* rect.y after "self.rect.y += self.velocity", the velocity already advanced.
MovedY(b, v) == Trunc(b.y * Scale + v, Scale)

HitsFloor(b) ==
    LET v == b.velocity + gravity
        y == MovedY(b, v)
    IN  ~(y <= -bird_size) /\ y + bird_size >= screen_height

\* Mutant: no clamp at the ceiling.
update_no_ceiling(b) ==
    LET v == b.velocity + gravity
        y == MovedY(b, v)
    IN  IF y + bird_size >= screen_height
        THEN [y |-> screen_height - bird_size,
              velocity |-> -((v * bounce_num) \div bounce_den),
              bounces |-> b.bounces + 1]
        ELSE [b EXCEPT !.y = y, !.velocity = v]

\* Mutant: the ceiling stops the bird as the floor reverses it.
update_stop_at_ceiling(b) ==
    LET v == b.velocity + gravity
        y == MovedY(b, v)
    IN  IF y <= -bird_size
        THEN [b EXCEPT !.y = -bird_size, !.velocity = 0]
        ELSE IF y + bird_size >= screen_height
        THEN [y |-> screen_height - bird_size,
              velocity |-> -((v * bounce_num) \div bounce_den),
              bounces |-> b.bounces + 1]
        ELSE [b EXCEPT !.y = y, !.velocity = v]

update(b) ==
    LET v == b.velocity + gravity
        y == MovedY(b, v)
    IN  IF y <= -bird_size
        THEN [b EXCEPT !.y = -bird_size, !.velocity = v]
        ELSE IF y + bird_size >= screen_height
        THEN [y |-> screen_height - bird_size,
              velocity |-> -((v * bounce_num) \div bounce_den),
              bounces |-> b.bounces + 1]
        ELSE [b EXCEPT !.y = y, !.velocity = v]

\* The bounce's product is exact while the velocity has digits left.
CanUpdate(b) == HitsFloor(b) => b.bounces < MaxBounce

\* The free flight since the last impulse: the height the impulse was given
\* at and the updates since; dropped once a clamp or bounce obstructs it.
NoFlight == [on |-> FALSE, y0 |-> 0, ticks |-> 0]

FlightStart(b) == [on |-> TRUE, y0 |-> b.y, ticks |-> 0]

FlightStep(f, b) ==
    LET v == b.velocity + gravity
        y == MovedY(b, v)
    IN  IF f.on /\ f.ticks < MaxFlight
           /\ y > -bird_size /\ y + bird_size < screen_height
        THEN [f EXCEPT !.ticks = f.ticks + 1]
        ELSE NoFlight

Init ==
    /\ bird = BirdInit
    /\ obstacles = <<>>
    /\ score = 0
    /\ collision = FALSE
    /\ running = TRUE
    /\ pc = "events"
    /\ timer_left = obstacle_interval
    /\ pending = 0
    /\ frame_elapsed = 0
    /\ ticks = 0
    /\ called = "init"
    /\ flight = FlightStart(BirdInit)

BirdMoveUpwards ==
    /\ bird' = move_upwards(bird)
    /\ called' = "move_upwards"
    /\ flight' = FlightStart(bird)
    /\ UNCHANGED game_vars

BirdUpdate ==
    /\ CanUpdate(bird)
    /\ bird' = update(bird)
    /\ called' = "update"
    /\ flight' = FlightStep(flight, bird)
    /\ UNCHANGED game_vars

NextBird == BirdMoveUpwards \/ BirdUpdate

SpecBird == Init /\ [][NextBird]_vars

\* --------------------------------------------------------------- Obstacle
\* Mutant: the bottom height forgets the gap.
Obstacle_no_gap(x, top_height) ==
    [gap_size |-> gap_size,
     top_height |-> top_height,
     bottom_height |-> screen_height - top_height,
     scored |-> FALSE,
     top_x |-> x,
     bottom_x |-> x,
     bottom_y |-> screen_height - (screen_height - top_height),
     alive |-> TRUE]

Obstacle(x, top_height) ==
    [gap_size |-> gap_size,
     top_height |-> top_height,
     bottom_height |-> screen_height - top_height - gap_size,
     scored |-> FALSE,
     top_x |-> x,
     bottom_x |-> x,
     bottom_y |-> screen_height - (screen_height - top_height - gap_size),
     alive |-> TRUE]

top_rect(o) == [x |-> o.top_x, y |-> 0, w |-> obstacle_width, h |-> o.top_height]

bottom_rect(o) ==
    [x |-> o.bottom_x, y |-> o.bottom_y, w |-> obstacle_width, h |-> o.bottom_height]

bird_rect(b) == [x |-> bird_left, y |-> b.y, w |-> bird_size, h |-> bird_size]

\* Mutant: the obstacle is killed when its left edge leaves the screen.
obstacle_update_left_edge(o) ==
    LET tx == o.top_x - hspeed
    IN  [o EXCEPT !.top_x = tx,
                  !.bottom_x = o.bottom_x - hspeed,
                  !.alive = ~(tx < 0)]

\* Obstacle.update: both rectangles move left; kill() leaves every group.
obstacle_update(o) ==
    LET tx == o.top_x - hspeed
    IN  [o EXCEPT !.top_x = tx,
                  !.bottom_x = o.bottom_x - hspeed,
                  !.alive = ~(tx + obstacle_width < 0)]

\* Mutant: rectangles that only touch count as colliding.
colliderect_touching(a, b) ==
    /\ a.x <= b.x + b.w
    /\ a.y <= b.y + b.h
    /\ a.x + a.w >= b.x
    /\ a.y + a.h >= b.y

\* pygame.Rect.colliderect, for rectangles of positive size.
colliderect(a, b) ==
    /\ a.x < b.x + b.w
    /\ a.y < b.y + b.h
    /\ a.x + a.w > b.x
    /\ a.y + a.h > b.y

Collides(b, o) ==
    colliderect(bird_rect(b), top_rect(o)) \/ colliderect(bird_rect(b), bottom_rect(o))

\* Mutant: the scored flag is not consulted.
Passed_unguarded(o) == o.top_x + obstacle_width < bird_left

Passed(o) == o.top_x + obstacle_width < bird_left /\ ~o.scored

OffScreen(o) == o.top_x + obstacle_width < 0 \/ o.bottom_x + obstacle_width < 0

\* The Obstacle class alone: one obstacle of any top height of the range is
\* constructed at the right edge and updated until it kills itself.
ObstacleCreate ==
    /\ obstacles = <<>>
    /\ \E h \in height_min..height_max :
         obstacles' = <<Obstacle(screen_width, h)>>
    /\ UNCHANGED <<bird, score, collision, running, pc, timer_left, pending,
                   frame_elapsed, ticks, called, flight>>

ObstacleUpdate ==
    /\ obstacles # <<>>
    /\ LET o == obstacle_update(obstacles[1])
       IN  obstacles' = IF o.alive THEN <<o>> ELSE <<>>
    /\ UNCHANGED <<bird, score, collision, running, pc, timer_left, pending,
                   frame_elapsed, ticks, called, flight>>

NextObstacle == ObstacleCreate \/ ObstacleUpdate

SpecObstacle == Init /\ [][NextObstacle]_vars

\* ------------------------------------------------------------------- main
\* The for loop over the group, from its i-th sprite on: kept holds the
\* sprites already visited that stay in the group.
RECURSIVE ObstacleLoopFrom(_, _, _, _)
ObstacleLoopFrom(i, kept, sc, b) ==
    IF i > Len(obstacles)
    THEN [obstacles |-> kept, score |-> sc, collision |-> FALSE]
    ELSE LET moved == obstacle_update(obstacles[i])
             pass == Passed(moved)
             o == [moved EXCEPT !.scored = moved.scored \/ pass]
             sc1 == IF pass THEN sc + 1 ELSE sc
             rest == SubSeq(obstacles, i + 1, Len(obstacles))
         IN  IF Collides(b, o)
             THEN [obstacles |-> (IF o.alive THEN Append(kept, o) ELSE kept) \o rest,
                   score |-> sc1,
                   collision |-> TRUE]
             ELSE ObstacleLoopFrom(i + 1,
                                   IF o.alive /\ ~OffScreen(o) THEN Append(kept, o) ELSE kept,
                                   sc1, b)

\* The taps the player model admits on a tick.
PlayerTaps(b) ==
    IF b.velocity >= TapSpeed * gravity THEN {TRUE}
    ELSE IF b.velocity = impulse * Scale + gravity
         THEN IF b.y < BirdInit.y + impulse THEN {TRUE} ELSE {TRUE, FALSE}
    ELSE {FALSE}

\* obstacle_timer events posted while dt ms pass.
TimerFires(left, dt) ==
    IF left > dt THEN 0 ELSE 1 + (dt - left) \div obstacle_interval

TimerAfter(left, dt) == left + TimerFires(left, dt) * obstacle_interval - dt

\* clock.tick(fps) and the event loop (lines 116-124).
Events ==
    /\ pc = "events"
    /\ ticks < MaxTicks
    /\ LET dt == IF frame_elapsed >= TickMs THEN 0 ELSE TickMs - frame_elapsed
           n == pending + TimerFires(timer_left, dt)
       IN  /\ timer_left' = TimerAfter(timer_left, dt)
           /\ \E hs \in [1..n -> HeightChoices] :
                obstacles' = obstacles \o [k \in 1..n |-> Obstacle(screen_width, hs[k])]
    /\ pending' = 0
    /\ frame_elapsed' = 0
    /\ \E space \in PlayerTaps(bird) :
         /\ bird' = IF space THEN move_upwards(bird) ELSE bird
         /\ called' = IF space THEN "move_upwards" ELSE "none"
         /\ flight' = IF space THEN FlightStart(bird) ELSE flight
    /\ \E quit \in BOOLEAN : running' = ~quit
    /\ pc' = "obstacles"
    /\ UNCHANGED <<score, collision, ticks>>

\* Mutant: the bird is updated together with the obstacles.
ObstacleLoop_moves_bird ==
    /\ pc = "obstacles"
    /\ CanUpdate(bird)
    /\ bird' = update(bird)
    /\ called' = "update"
    /\ flight' = FlightStep(flight, bird)
    /\ LET r == ObstacleLoopFrom(1, <<>>, score, update(bird))
       IN  /\ obstacles' = r.obstacles
           /\ score' = r.score
           /\ collision' = r.collision
           /\ pc' = IF r.collision THEN "gameover" ELSE "render"
    /\ UNCHANGED <<running, timer_left, pending, frame_elapsed, ticks>>

\* The obstacle loop (lines 126-138).
ObstacleLoop ==
    /\ pc = "obstacles"
    /\ LET r == ObstacleLoopFrom(1, <<>>, score, bird)
       IN  /\ obstacles' = r.obstacles
           /\ score' = r.score
           /\ collision' = r.collision
           /\ pc' = IF r.collision THEN "gameover" ELSE "render"
    /\ called' = "none"
    /\ UNCHANGED <<bird, running, timer_left, pending, frame_elapsed, ticks, flight>>

\* game_over_screen (lines 87-92): the timer keeps posting during the wait.
GameOverScreen ==
    /\ pc = "gameover"
    /\ pending' = pending + TimerFires(timer_left, game_over_wait)
    /\ timer_left' = TimerAfter(timer_left, game_over_wait)
    /\ frame_elapsed' = frame_elapsed + game_over_wait
    /\ pc' = "reset"
    /\ called' = "none"
    /\ UNCHANGED <<bird, obstacles, score, collision, running, ticks, flight>>

\* Mutant: the reset leaves the score as it is.
Reset_keeps_score ==
    /\ pc = "reset"
    /\ obstacles' = <<>>
    /\ timer_left' = obstacle_interval
    /\ bird' = BirdInit
    /\ pc' = "render"
    /\ called' = "init"
    /\ flight' = FlightStart(BirdInit)
    /\ ticks' = 0
    /\ UNCHANGED <<score, collision, running, pending, frame_elapsed>>

\* The reset (lines 142-151): set_timer restarts the timer, the event queue
\* is left as it is.
Reset ==
    /\ pc = "reset"
    /\ obstacles' = <<>>
    /\ timer_left' = obstacle_interval
    /\ bird' = BirdInit
    /\ score' = 0
    /\ pc' = "render"
    /\ called' = "init"
    /\ flight' = FlightStart(BirdInit)
    /\ ticks' = 0
    /\ UNCHANGED <<collision, running, pending, frame_elapsed>>

\* Drawing (lines 153-166), with bird_group.update() in its middle.
Render ==
    /\ pc = "render"
    /\ CanUpdate(bird)
    /\ bird' = update(bird)
    /\ called' = "update"
    /\ flight' = FlightStep(flight, bird)
    /\ ticks' = ticks + 1
    /\ pc' = IF running THEN "events" ELSE "exit"
    /\ UNCHANGED <<obstacles, score, collision, running, timer_left, pending, frame_elapsed>>

Next == Events \/ ObstacleLoop \/ GameOverScreen \/ Reset \/ Render

Spec == Init /\ [][Next]_vars

\* ----------------------------------------------------------------- claims
\* The geometry the claims speak of, written from the rectangles' edges.
XOverlap(o) == o.top_x < bird_right /\ o.top_x + obstacle_width > bird_left

InTopRect(b, o) == b.y < o.top_height /\ b.y + bird_size > 0

InBottomRect(b, o) ==
    b.y + bird_size > screen_height - o.bottom_height /\ b.y < screen_height

Overlaps(b, o) == XOverlap(o) /\ (InTopRect(b, o) \/ InBottomRect(b, o))

ObstacleSet == {obstacles[i] : i \in DOMAIN obstacles}

\* Obstacle.update calls an obstacle has had.
Advances(o) == (screen_width - o.top_x) \div hspeed

\* The state right after the obstacle loop.
AfterLoop == pc \in {"gameover", "render"}

\* C1: after every Bird.update, whatever impulses and updates came before, the
\* bird's rect top lies in [-bodyHeight, screenHeight] = [-100, 1000].
C1_PositionInBounds ==
    called = "update" => bird.y >= -bird_size /\ bird.y <= screen_height

\* C1 witness: an update has clamped the bird at the ceiling while it was
\* still moving upward.
C1_Witness == called = "update" /\ bird.y = -bird_size /\ bird.velocity < 0

\* C2: an obstacle is scored exactly when its right edge is left of the bird's
\* left edge, and the score goes up in the obstacle loop by one for each
\* obstacle whose right edge passes the bird's left edge in that tick, and
\* changes nowhere else except for the reset to 0.
C2_ScoreOncePerObstacle ==
    /\ [](\A o \in ObstacleSet :
            o.scored <=> o.top_x + obstacle_width < bird_left)
    /\ [][/\ pc = "obstacles" =>
               score' = score + Cardinality(
                   {i \in DOMAIN obstacles :
                       /\ ~(obstacles[i].top_x + obstacle_width < bird_left)
                       /\ obstacles[i].top_x - hspeed + obstacle_width < bird_left})
          /\ pc \notin {"obstacles", "reset"} => score' = score]_vars

\* C2 witness: a bird that is not at the ceiling has been passed by two
\* obstacles, each counted once.
C2_Witness ==
    /\ pc = "render" /\ score = 2 /\ bird.y > 0
    /\ Cardinality({i \in DOMAIN obstacles : obstacles[i].scored}) = 2

C4_HeightsAddUp ==
    \A o \in ObstacleSet :
        /\ o.top_height + o.gap_size + o.bottom_height = screen_height
        /\ o.top_height \in height_min..height_max
        /\ o.bottom_y + o.bottom_height = screen_height

\* C4 witness: an obstacle of the tallest top height that has been advanced
\* until it is partly off the screen.
C4_Witness ==
    \E o \in ObstacleSet : o.top_height = height_max /\ o.top_x < 0

\* C5 as stated: in unobstructed free flight the bird is back at the height of
\* the impulse after exactly 50 updates, and not before.
C5_ReturnsAfter50 ==
    flight.on =>
        /\ flight.ticks = 50 => bird.y = flight.y0
        /\ flight.ticks \in 1..49 => bird.y # flight.y0

\* C5 amended: in unobstructed free flight that stays on the screen (impulse
\* at rect top >= 70) the bird is 15 px above the impulse height after 50
\* updates, above it after each of the first 52, and back at it after
\* exactly 53.
C5_ReturnsAfter53 ==
    (flight.on /\ flight.y0 >= 70) =>
        /\ flight.ticks = 50 => bird.y = flight.y0 - 15
        /\ flight.ticks \in 1..52 => bird.y < flight.y0
        /\ flight.ticks = 53 => bird.y = flight.y0

\* C5 witness: a flight that started with a key press is back at its height.
C5_Witness ==
    /\ flight.on /\ flight.ticks = 53 /\ flight.y0 >= 70
    /\ flight.y0 # BirdInit.y /\ bird.y = flight.y0

\* C8: an update reverses and damps the velocity, and puts the bottom edge on
\* the floor, exactly when the move brings the bottom edge to the floor or
\* below; the velocity it leaves is then <= 0; every other update, clamped at
\* the ceiling or not, adds the gravity increment and nothing else.
C8_BounceOnlyOnFloor ==
    [][called' = "update" =>
         LET v == bird.velocity + gravity
             floor == Trunc(bird.y * Scale + v, Scale) + bird_size >= screen_height
         IN  IF floor
             THEN /\ bird'.velocity * bounce_den = -(v * bounce_num)
                  /\ bird'.y + bird_size = screen_height
                  /\ bird'.velocity <= 0
             ELSE bird'.velocity = v]_vars

\* C8 witness: a bounce off the floor that left the bird moving upward, after
\* an earlier bounce.
C8_Witness ==
    /\ called = "update" /\ bird.y + bird_size = screen_height
    /\ bird.velocity < 0 /\ bird.bounces = 2

\* C6: an obstacle of the group has had at most 366 advances and stands at
\* 1000 - 3 * advances; an obstacle loop that finds no collision keeps
\* exactly the obstacles that had fewer than 366 advances before it, so the
\* 367th advance is the one that removes an obstacle.
C6_RemovedAt367 ==
    /\ [](\A o \in ObstacleSet :
            /\ Advances(o) \in 0..366
            /\ o.top_x = screen_width - hspeed * Advances(o))
    /\ [][(pc = "obstacles" /\ pc' = "render") =>
            /\ Len(obstacles') =
                 Cardinality({i \in DOMAIN obstacles : Advances(obstacles[i]) < 366})
            /\ \A j \in DOMAIN obstacles' : Advances(obstacles'[j]) \in 1..366]_vars

\* C6 witness: an obstacle still in the group after 366 advances, as the
\* loop that gives it the 367th is about to run.
C6_Witness ==
    pc = "obstacles" /\ \E o \in ObstacleSet : Advances(o) = 366

\* C7 as stated: Bird.update runs with the obstacles' advance, before the
\* collision test of the tick, and not while the frame is drawn.
C7_BirdAdvancedBeforeTest ==
    [][/\ pc = "obstacles" => called' = "update"
       /\ pc = "render" => called' # "update"]_vars

\* C7 amended: a tick runs events, then the obstacles' advance with scoring
\* and the collision test, then GameOver and the reset if a collision was
\* found, then the drawing, and Bird.update runs during the drawing; the
\* collision test sees the bird where the previous tick's update left it.
C7_TickOrder ==
    [][/\ pc = "events" => pc' = "obstacles" /\ called' # "update"
       /\ pc = "obstacles" =>
            /\ pc' \in {"gameover", "render"}
            /\ bird' = bird
            /\ collision' <=> \E j \in DOMAIN obstacles' : Overlaps(bird, obstacles'[j])
       /\ pc = "gameover" => pc' = "reset" /\ bird' = bird
       /\ pc = "reset" => pc' = "render" /\ called' # "update"
       /\ pc = "render" => pc' \in {"events", "exit"} /\ called' = "update"]_vars

\* C7 witness: the frame just drawn has the bird inside an obstacle that the
\* tick's collision test, made before the bird moved, did not find.
C7_Witness ==
    pc = "events" /\ ~collision /\ \E o \in ObstacleSet : Overlaps(bird, o)

\* C9: an obstacle is added only when a full spawn interval has passed since
\* the loop started or last reset.
C9_NoSpawnBeforeInterval ==
    (pc = "obstacles" /\ \E o \in ObstacleSet : o.top_x = screen_width) =>
        (ticks + 1) * TickMs >= obstacle_interval

\* C10: right after the obstacle loop, a bird clamped at the ceiling collides
\* with no obstacle and the loop is not in GameOver; a bird below the ceiling
\* is in GameOver whenever an obstacle shares its x-extent and has its top
\* rectangle reaching below the bird's top or its bottom rectangle starting
\* above the bird's bottom.
C10_CeilingNeverCollides ==
    AfterLoop =>
        /\ bird.y = -bird_size =>
             /\ pc # "gameover"
             /\ \A o \in ObstacleSet : ~Collides(bird, o)
        /\ (/\ bird.y > -bird_size
            /\ \E o \in ObstacleSet :
                 /\ XOverlap(o)
                 /\ o.top_height > bird.y \/ o.bottom_y < bird.y + bird_size)
             => pc = "gameover"

\* C10 witness: the bird at the ceiling, an obstacle across its x-extent, no
\* collision, and an earlier obstacle already counted.
C10_Witness ==
    /\ pc = "render" /\ ~collision /\ bird.y = -bird_size /\ score >= 1
    /\ \E o \in ObstacleSet : XOverlap(o)

====
